---- MODULE Spec2Model ----
(***************************************************************************)
(* Model of src/src/App.tsx: the Monopoly board probability tool.          *)
(*                                                                         *)
(* State of the App component: goodTiles (useState, an array of tile       *)
(* indices) and hovered (useState, a tile index or null).  Every handler   *)
(* ends with React re-rendering the component, which recomputes the memo   *)
(* chanceFromHover and the DetailsPanel breakdown; those rendered values   *)
(* are kept as variables and every action sets them from the new goodTiles *)
(* and hovered.  The per-tile ownChance labels are the operator OwnChances *)
(* of the current goodTiles.  armed is a history variable: it records what *)
(* the group buttons did and is read by no handler.                        *)
(*                                                                         *)
(* Numbers.  diceProb[s] is the double v/36; the model keeps the numerator *)
(* v and sums numerators, so a probability p is the integer 36*p.  The     *)
(* value +(p*100).toFixed(2) is kept as an integer number of hundredths of *)
(* a percent.  The exact value 10000*v/36 = 2500*v/9 has a fractional part *)
(* k/9, which is at least 1/18 away from one half, so the rounding error   *)
(* of the double sum (about 1e-14) never changes the two printed decimals  *)
(* and no tie occurs.                                                      *)
(***************************************************************************)
EXTENDS Integers, Sequences, FiniteSets, TLC

VARIABLES goodTiles, hovered, chanceFromHover, panel, armed

vars == <<goodTiles, hovered, chanceFromHover, panel, armed>>

(* ---------------------------- bounds ----------------------------------- *)

\* number of board squares the mouse clicks on (taken from ClickSeq)
MaxClick == 1

\* number of board squares the mouse hovers over (taken from HoverSeq)
MaxHover == 1

\* number of group buttons the mouse presses (taken from ButtonSeq)
MaxGroup == 3

\* number of out-of-range indices on each side of 0..39 (unchecked calls)
MaxRaw == 2

ClickSeq == <<10, 1, 5, 39>>

\* positions in GROUPS of the buttons pressed, of which there are six
ButtonSeq == <<6, 1, 2, 3, 4, 5>>

HoverSeq == <<38, 39, 0, 33>>

ClickTiles == {ClickSeq[k] : k \in 1..MaxClick}

HoverTiles == {HoverSeq[k] : k \in 1..MaxHover}

RawTiles == {0 - k : k \in 1..MaxRaw} \cup {39 + k : k \in 1..MaxRaw}

(* ---------------------------- constants -------------------------------- *)

\* the value null of `hovered` and of the memo chanceFromHover
Null == -999

NumTiles == 40

TileIndex == 0..(NumTiles - 1)

DiceCountsSwapped == <<0, 0, 1, 2, 3, 4, 5, 6, 5, 3, 4, 2, 1>>

\* the literal array of line 6, before .map(v => v / 36)
DiceCounts == <<0, 0, 1, 2, 3, 4, 5, 6, 5, 4, 3, 2, 1>>

\* diceProb[s], in units of 1/36; the array is indexed from 0
diceProb == [s \in 0..12 |-> DiceCounts[s + 1]]

boardTiles == <<
  "GO", "MEDITERRANEAN AVE", "COMMUNITY CHEST", "BALTIC AVE", "INCOME TAX",
  "READING RAILROAD", "ORIENTAL AVE", "CHANCE", "VERMONT AVE", "CONNECTICUT AVE",
  "JUST VISITING / JAIL", "ST. CHARLES PLACE", "ELECTRIC COMPANY", "STATES AVE", "VIRGINIA AVE",
  "PENNSYLVANIA RAILROAD", "ST. JAMES PLACE", "COMMUNITY CHEST", "TENNESSEE AVE", "NEW YORK AVE",
  "FREE PARKING", "KENTUCKY AVE", "CHANCE", "INDIANA AVE", "ILLINOIS AVE",
  "B. & O. RAILROAD", "ATLANTIC AVE", "VENTNOR AVE", "WATER WORKS", "MARVIN GARDENS",
  "GO TO JAIL", "PACIFIC AVE", "NORTH CAROLINA AVE", "COMMUNITY CHEST", "PENNSYLVANIA AVE",
  "SHORT LINE", "CHANCE", "PARK PLACE", "LUXURY TAX", "BOARDWALK" >>

(* ---------------------------- array helpers ---------------------------- *)

\* Array.prototype.includes
Includes(arr, x) == \E k \in 1..Len(arr) : arr[k] = x

\* the members of an array, as a set
Members(arr) == {arr[k] : k \in 1..Len(arr)}

\* Array.from(set) of the Set built by adding the elements of arr one after
\* the other: a Set keeps insertion order and ignores an element it already
\* holds, so the result keeps the first occurrence of each element of arr
ArrayFromSet(arr) ==
  LET indexed == [k \in 1..Len(arr) |-> <<k, arr[k]>>]
      firsts == SelectSeq(indexed,
                          LAMBDA p : \A j \in 1..(p[1] - 1) : arr[j] # p[2])
  IN  [n \in 1..Len(firsts) |-> firsts[n][2]]

JsMod_nowrap(a, n) == a

\* the remainder operator % of JavaScript (sign of the dividend)
JsMod(a, n) == IF a >= 0 THEN a % n ELSE 0 - ((0 - a) % n)

(* ---------------------------- tile groups ------------------------------ *)

CORNERS == <<0, 10, 20, 30>>

TAXES_UTILS == <<4, 12, 28, 38>>

CHANCE == <<7, 22, 36>>

RAILROADS == <<5, 15, 25, 35>>

COMMUNITY == <<2, 17, 33>>

NON_PROPS ==
  Members(CORNERS \o TAXES_UTILS \o CHANCE \o RAILROADS \o COMMUNITY)

PROPERTIES_short ==
  SelectSeq([k \in 1..(NumTiles - 1) |-> k - 1], LAMBDA i : i \notin NON_PROPS)

PROPERTIES ==
  SelectSeq([k \in 1..NumTiles |-> k - 1], LAMBDA i : i \notin NON_PROPS)

\* the six buttons, in the order of lines 90-95
GROUPS == <<CORNERS, TAXES_UTILS, CHANCE, RAILROADS, COMMUNITY, PROPERTIES>>

GroupIds == 1..Len(GROUPS)

ButtonIds == {ButtonSeq[k] : k \in 1..(IF MaxGroup < Len(GROUPS) THEN MaxGroup ELSE Len(GROUPS))}

(* ---------------------------- pure functions --------------------------- *)

\* +(p * 100).toFixed(2), p in units of 1/36, result in hundredths
ToFixed2(p) == (p * 10000 * 2 + 36) \div 72

RECURSIVE CalcLoop(_, _, _, _)
\* the for loop of calcGoodChance from `roll` on, p accumulated so far
CalcLoop(start, good, roll, p) ==
  IF roll > 12 THEN p
  ELSE LET target == JsMod(start + roll, NumTiles)
       IN  CalcLoop(start, good, roll + 1,
                    IF Includes(good, target) THEN p + diceProb[roll] ELSE p)

calcGoodChance_short(start, good) == ToFixed2(CalcLoop(start, good, 3, 0))

calcGoodChance(start, good) == ToFixed2(CalcLoop(start, good, 2, 0))

\* boardTiles[target]; an index outside the array reads undefined
BoardName(target) ==
  IF target \in TileIndex THEN boardTiles[target + 1] ELSE "undefined"

RECURSIVE RowsLoop(_, _, _, _)
\* the for loop of breakdownFrom from `roll` on, rows pushed so far
RowsLoop(start, good, roll, rows) ==
  IF roll > 12 THEN rows
  ELSE LET target == JsMod(start + roll, NumTiles)
       IN  RowsLoop(start, good, roll + 1,
                    IF Includes(good, target)
                    THEN Append(rows, [roll |-> roll, distance |-> roll,
                                       tileIndex |-> target,
                                       name |-> BoardName(target),
                                       prob |-> diceProb[roll]])
                    ELSE rows)

RECURSIVE Reduce(_, _, _)
\* rows.reduce((sum, r) => sum + r.prob, 0), from position k
Reduce(rows, k, sum) ==
  IF k > Len(rows) THEN sum ELSE Reduce(rows, k + 1, sum + rows[k].prob)

breakdownFrom_short(start, good) ==
  LET rows == RowsLoop(start, good, 3, <<>>)
  IN  [rows |-> rows, totalPct |-> ToFixed2(Reduce(rows, 1, 0))]

breakdownFrom(start, good) ==
  LET rows == RowsLoop(start, good, 2, <<>>)
  IN  [rows |-> rows, totalPct |-> ToFixed2(Reduce(rows, 1, 0))]

toggleTileFn_addOnly(prev, i) == Append(prev, i)

\* the updater passed to setGoodTiles by toggleTile
toggleTileFn(prev, i) ==
  IF Includes(prev, i) THEN SelectSeq(prev, LAMBDA x : x # i)
  ELSE Append(prev, i)

toggleGroupFn_xor(prev, indices) ==
  SelectSeq(prev, LAMBDA i : ~Includes(indices, i))
    \o SelectSeq(indices, LAMBDA i : ~Includes(prev, i))

toggleGroupFn_concat(prev, indices) ==
  IF \A k \in 1..Len(indices) : Includes(prev, indices[k])
  THEN SelectSeq(prev, LAMBDA i : ~Includes(indices, i))
  ELSE prev \o indices

\* the updater passed to setGoodTiles by toggleGroup
toggleGroupFn(prev, indices) ==
  LET allOn == \A k \in 1..Len(indices) : Includes(prev, indices[k])
  IN  IF allOn THEN SelectSeq(prev, LAMBDA i : ~Includes(indices, i))
      ELSE ArrayFromSet(prev \o indices)

(* ---------------------------- rendering -------------------------------- *)

\* useMemo of lines 73-76
MemoChance(hov, good) == IF hov = Null THEN Null ELSE calcGoodChance(hov, good)

\* ownChance of line 115, for each square of the board
OwnChances(good) == [t \in TileIndex |-> calcGoodChance(t, good)]

\* DetailsPanel: not rendered while hovered is null
Panel(hov, good) ==
  IF hov = Null THEN [shown |-> FALSE, header |-> 0, rows |-> <<>>, totalPct |-> 0]
  ELSE LET b == breakdownFrom(hov, good)
           memo == MemoChance(hov, good)
       IN  [shown |-> TRUE, header |-> IF memo = Null THEN 0 ELSE memo,
            rows |-> b.rows, totalPct |-> b.totalPct]

Render(hov, good) ==
  /\ chanceFromHover' = MemoChance(hov, good)
  /\ panel' = Panel(hov, good)

(* ---------------------------- history ---------------------------------- *)

NoneOn(good, indices) == \A k \in 1..Len(indices) : ~Includes(good, indices[k])

AllOn(good, indices) == \A k \in 1..Len(indices) : Includes(good, indices[k])

NotArmed == <<0, "none">>

\* History of the group buttons.  armed = <<g, s>> with
\*   s = "on"          the button of g was just pressed with no member good
\*   s = "touched"     as "on", and single squares were clicked since
\*   s = "fromFull"    the button of g was just pressed a second time, with
\*                     every member of g good at that moment
\*   s = "fromPartial" the same, with some member of g not good
ArmedAfterGroup(prev, g) ==
  IF armed[1] = g /\ armed[2] \in {"on", "touched"}
  THEN <<g, IF AllOn(prev, GROUPS[g]) THEN "fromFull" ELSE "fromPartial">>
  ELSE IF NoneOn(prev, GROUPS[g]) THEN <<g, "on">> ELSE NotArmed

ArmedAfterTile ==
  IF armed[2] \in {"on", "touched"} THEN <<armed[1], "touched">> ELSE NotArmed

(* ---------------------------- actions ---------------------------------- *)

Init ==
  /\ goodTiles = <<>>
  /\ hovered = Null
  /\ chanceFromHover = MemoChance(Null, <<>>)
  /\ panel = Panel(Null, <<>>)
  /\ armed = NotArmed

\* onClick of a square: toggleTile(tileIndex)
ToggleTile(i) ==
  /\ goodTiles' = toggleTileFn(goodTiles, i)
  /\ Render(hovered, goodTiles')
  /\ armed' = ArmedAfterTile
  /\ UNCHANGED hovered

\* onClick of a group button: toggleGroup(GROUPS[g])
ToggleGroup(g) ==
  /\ goodTiles' = toggleGroupFn(goodTiles, GROUPS[g])
  /\ Render(hovered, goodTiles')
  /\ armed' = ArmedAfterGroup(goodTiles, g)
  /\ UNCHANGED hovered

\* onMouseEnter of a square: setHovered(tileIndex)
Hover(i) ==
  /\ hovered' = i
  /\ Render(i, goodTiles)
  /\ UNCHANGED <<goodTiles, armed>>

\* onKey with e.key === "Escape": setHovered(null)
Escape ==
  /\ hovered' = Null
  /\ Render(Null, goodTiles)
  /\ UNCHANGED <<goodTiles, armed>>

Next ==
  \/ \E i \in ClickTiles : ToggleTile(i)
  \/ \E g \in ButtonIds : ToggleGroup(g)
  \/ \E i \in HoverTiles : Hover(i)
  \/ Escape

Spec == Init /\ [][Next]_vars

(* ------------- queries on a family of Good-Sets ------------------------ *)

\* The user first builds a Good-Set, pressing group buttons in the order of
\* the button row and clicking squares, and then inspects squares with the
\* Good-Set left as it is: the mouse enters any square of the board, Escape
\* closes the panel, the mouse enters another square.

\* a button is pressed while no later button's group has a good member
PressInOrder(g) ==
  /\ hovered = Null
  /\ \A h \in g..Len(GROUPS) : NoneOn(goodTiles, GROUPS[h])
  /\ ToggleGroup(g)

ClickBeforeHover(i) ==
  /\ hovered = Null
  /\ ToggleTile(i)

HoverClosed(i) ==
  /\ hovered = Null
  /\ Hover(i)

NextQuery ==
  \/ \E g \in GroupIds : PressInOrder(g)
  \/ \E i \in ClickTiles : ClickBeforeHover(i)
  \/ \E i \in TileIndex : HoverClosed(i)
  \/ Escape

SpecQuery == Init /\ [][NextQuery]_vars

(* ------------- the handlers reached with out-of-range indices ---------- *)

NextUnchecked ==
  \/ \E i \in ClickTiles \cup RawTiles : ToggleTile(i)
  \/ \E i \in HoverTiles \cup RawTiles : Hover(i)
  \/ Escape

SpecUnchecked == Init /\ [][NextUnchecked]_vars

(* ---------------------------- properties ------------------------------- *)

NoDuplicates(arr) ==
  \A j, k \in 1..Len(arr) : j # k => arr[j] # arr[k]

\* number of ordered pairs of die faces with sum s
PairCount(s) ==
  Cardinality({d \in (1..6) \X (1..6) : d[1] + d[2] = s})

RECURSIVE SumDiceFrom(_)
SumDiceFrom(s) == IF s > 12 THEN 0 ELSE diceProb[s] + SumDiceFrom(s + 1)

\* C1: toggleGroup is a two-state switch.  For the current Good-Set S and each
\* of the six groups G, toggleGroup(G) yields S minus G when every index of G
\* is in S and S union G otherwise; from a state where G is not fully on, a
\* first call leaves all of G on and a second call leaves all of G off.
ToggleGroupIsSwitch ==
  \A g \in GroupIds :
    LET G == GROUPS[g]
        S == Members(goodTiles)
        once == toggleGroupFn(goodTiles, G)
        twice == toggleGroupFn(once, G)
    IN  /\ Members(once) = IF Members(G) \subseteq S THEN S \ Members(G)
                           ELSE S \cup Members(G)
        /\ ~AllOn(goodTiles, G) => AllOn(once, G) /\ NoneOn(twice, G)

\* a button was pressed on a fully-on group that was switched on before and
\* other squares are still good: the second press has cleared the group
WitnessC1 ==
  \E g \in GroupIds :
    /\ armed = <<g, "fromFull">>
    /\ NoneOn(goodTiles, GROUPS[g])
    /\ goodTiles # <<>>

\* C2: for every start in 0..39 and every Good-Set built by toggles,
\* breakdownFrom(start).totalPct equals calcGoodChance(start); the percentage
\* in the header of the details panel equals the Total row of its table.
\* (Stated of the hovered square; every square gets hovered.)
TotalEqualsChance ==
  hovered # Null =>
    /\ panel.shown
    /\ panel.totalPct = chanceFromHover
    /\ panel.header = panel.totalPct
    /\ breakdownFrom(hovered, goodTiles).totalPct = calcGoodChance(hovered, goodTiles)

\* the panel is shown with a table of several rows and a non-zero total
WitnessC2 ==
  /\ panel.shown
  /\ Len(panel.rows) >= 2
  /\ Len(panel.rows) < 11
  /\ panel.totalPct > 0

\* C3: toggle is its own inverse.  For the current Good-Set S and every index
\* i in 0..39, toggle(i) flips the membership of i and of no other index, and
\* a second toggle(i) gives a Good-Set with the members of S.
ToggleIsInvolution ==
  \A i \in TileIndex :
    LET S == Members(goodTiles)
        once == toggleTileFn(goodTiles, i)
        twice == toggleTileFn(once, i)
    IN  /\ Members(once) = IF i \in S THEN S \ {i} ELSE S \cup {i}
        /\ Members(twice) = S

\* the corners were switched on by their button, square 10 was clicked off
\* and clicked on again: the same members, square 10 now last in the array
WitnessC3 == goodTiles = <<0, 20, 30, 10>>

\* C4 as stated: from a state where no member of G is good, toggleGroup(G)
\* makes all members of G good, and the next toggleGroup(G) clears all members
\* of G whatever single squares were clicked in between.
SecondPressAlwaysClears ==
  \A g \in GroupIds :
    /\ armed = <<g, "on">> => AllOn(goodTiles, GROUPS[g])
    /\ armed[1] = g /\ armed[2] \in {"fromFull", "fromPartial"}
         => NoneOn(goodTiles, GROUPS[g])

\* C4 amended: from a state where no member of G is good, toggleGroup(G) makes
\* all members of G good; the next toggleGroup(G) clears all members of G when
\* all of them are still good at that moment, and makes all of them good again
\* when the clicks in between left G only partially on.
SecondPressClearsOnlyWhenFull ==
  \A g \in GroupIds :
    /\ armed = <<g, "on">> => AllOn(goodTiles, GROUPS[g])
    /\ armed = <<g, "fromFull">> => NoneOn(goodTiles, GROUPS[g])
    /\ armed = <<g, "fromPartial">> => AllOn(goodTiles, GROUPS[g])

\* the corners button was pressed a second time while the clicks in between
\* had left the corners partially on
WitnessC4 == armed = <<1, "fromPartial">> /\ hovered = Null

\* C5: with all 40 indices in the Good-Set, calcGoodChance(start) is 100.00
\* for every start in 0..39, and all eleven rolls land on a good tile.
AllGoodIsHundred ==
  Members(goodTiles) = TileIndex =>
    /\ \A start \in TileIndex : OwnChances(goodTiles)[start] = 10000
    /\ hovered # Null => chanceFromHover = 10000 /\ Len(panel.rows) = 11

\* every square is good and the panel of the last square shows 100.00
WitnessC5 ==
  /\ Members(goodTiles) = TileIndex
  /\ hovered = 39
  /\ chanceFromHover = 10000

\* C6: for every start in 0..39 the rows of breakdownFrom(start) are the rolls
\* r in 2..12 with (start + r) mod 40 in the Good-Set, in strictly increasing
\* roll order, each with distance = r, tileIndex = (start + r) mod 40 and
\* mass diceProb[r]; with no such roll the rows are empty and the total 0.00.
\* (Stated of the panel of the hovered square; every square gets hovered.)
RowsAreGoodRolls ==
  hovered # Null =>
    LET start == hovered
        rows == panel.rows
        n == Len(rows)
    IN  /\ start \in TileIndex
        /\ {rows[k].roll : k \in 1..n} =
             {r \in 2..12 : ((start + r) % 40) \in Members(goodTiles)}
        /\ \A k \in 1..(n - 1) : rows[k].roll < rows[k + 1].roll
        /\ \A k \in 1..n :
             /\ rows[k].distance = rows[k].roll
             /\ rows[k].tileIndex = (start + rows[k].roll) % 40
             /\ rows[k].prob = diceProb[rows[k].roll]
        /\ n = 0 => panel.totalPct = 0
        /\ goodTiles = <<>> => n = 0

\* square 10 alone is good, hovered 38: the single row is roll 12, which
\* wraps past square 39 to square 10
WitnessC6 ==
  /\ goodTiles = <<10>>
  /\ hovered = 38
  /\ Len(panel.rows) = 1
  /\ panel.rows[1].roll = 12
  /\ panel.rows[1].tileIndex = 10
  /\ panel.totalPct = 278

\* C7: for s in 2..12, diceProb[s] is the number of pairs of faces with sum s
\* over 36, the entries for 2..12 add up to 36/36, the entries for 0 and 1
\* are 0; every row of the panel carries that mass for its roll.
DiceTableIsPairCount ==
  /\ \A s \in 2..12 : diceProb[s] = PairCount(s)
  /\ SumDiceFrom(2) = 36
  /\ diceProb[0] = 0
  /\ diceProb[1] = 0
  /\ \A k \in 1..Len(panel.rows) : panel.rows[k].prob = PairCount(panel.rows[k].roll)

\* the panel shows all eleven rolls, with mass 6/36 for roll 7
WitnessC7 ==
  /\ Len(panel.rows) = 11
  /\ panel.rows[6].roll = 7
  /\ panel.rows[6].prob = 6

\* C8 as stated: the six groups are corners {0,10,20,30}, taxes/utilities
\* {4,12,28,38}, chance {7,22,36}, railroads {5,15,25,35}, community chest
\* {2,17,33} and properties = the indices of 0..39 in none of those five, and
\* the properties group consists of 28 indices; a group just switched on by
\* its button has exactly those indices good.
GroupsAreFixed28 ==
  LET claimed == << {0, 10, 20, 30}, {4, 12, 28, 38}, {7, 22, 36},
                    {5, 15, 25, 35}, {2, 17, 33} >>
      others == UNION {claimed[g] : g \in 1..5}
  IN  /\ Len(GROUPS) = 6
      /\ \A g \in 1..5 : Members(GROUPS[g]) = claimed[g]
      /\ Members(GROUPS[6]) = TileIndex \ others
      /\ Len(GROUPS[6]) = 28
      /\ Cardinality(Members(GROUPS[6])) = 28
      /\ \A g \in 1..5 : armed = <<g, "on">> => claimed[g] \subseteq Members(goodTiles)
      /\ armed = <<6, "on">> => (TileIndex \ others) \subseteq Members(goodTiles)

\* C8 amended: the same six sets, and the properties group consists of the 22
\* indices left by the 18 indices of the other five groups; a group just
\* switched on by its button has exactly those indices good.
GroupsAreFixed ==
  LET claimed == << {0, 10, 20, 30}, {4, 12, 28, 38}, {7, 22, 36},
                    {5, 15, 25, 35}, {2, 17, 33} >>
      others == UNION {claimed[g] : g \in 1..5}
  IN  /\ Len(GROUPS) = 6
      /\ \A g \in 1..5 : Members(GROUPS[g]) = claimed[g]
      /\ Members(GROUPS[6]) = TileIndex \ others
      /\ Len(GROUPS[6]) = 22
      /\ Cardinality(Members(GROUPS[6])) = 22
      /\ \A g \in 1..5 : armed = <<g, "on">> => claimed[g] \subseteq Members(goodTiles)
      /\ armed = <<6, "on">> => (TileIndex \ others) \subseteq Members(goodTiles)

\* the properties button was just pressed on an empty Good-Set
WitnessC8 ==
  /\ armed = <<6, "on">>
  /\ Len(goodTiles) = 22
  /\ Includes(goodTiles, 39)

\* C9 as stated: an index outside 0..39 is never accepted: it never enters the
\* Good-Set and no chance or breakdown is produced for such a start.
OutOfRangeFailsFast ==
  /\ \A k \in 1..Len(goodTiles) : goodTiles[k] \in TileIndex
  /\ hovered \notin TileIndex => chanceFromHover = Null /\ ~panel.shown

\* C10: the Good-Set starts empty; in every reachable state goodTiles holds no
\* index twice and only indices in 0..39; a step that changes it is a
\* toggleTile or a toggleGroup, and a step that changes hovered (a hover or
\* Escape) leaves it unchanged.
GoodSetIsSet ==
  /\ goodTiles = <<>>
  /\ [](NoDuplicates(goodTiles) /\ Members(goodTiles) \subseteq TileIndex)
  /\ [][/\ goodTiles' # goodTiles =>
             \/ \E i \in TileIndex : goodTiles' = toggleTileFn(goodTiles, i)
             \/ \E g \in GroupIds : goodTiles' = toggleGroupFn(goodTiles, GROUPS[g])
        /\ hovered' # hovered => goodTiles' = goodTiles]_vars

\* a button was pressed on a partially-on group while a square is hovered
WitnessC10 ==
  /\ hovered # Null
  /\ \E g \in GroupIds : armed = <<g, "fromPartial">>
  /\ Len(goodTiles) >= 4

====
